---- MODULE Spec2Model ----
(***************************************************************************)
(* Model of app.py: the HAL 9000 chat proxy.                               *)
(*                                                                         *)
(* State: the module-level list conversation_history, and for each /chat   *)
(* request its position in chat()/call_gemini_api(), its message, the      *)
(* payload it built and the request body it sent.  What a step hands to    *)
(* the client (the outcome of call_gemini_api and the HTTP response) is    *)
(* kept in `last` until the next step.  Requests run on independent        *)
(* threads, so the steps of different requests and of /reset interleave;   *)
(* one step is one access to the shared list.                              *)
(***************************************************************************)
EXTENDS Integers, Sequences, FiniteSets, TLC

\* ------------------------------------------------------------------ bounds
MaxCalls == 2       \* number of /chat requests in a run

Calls == 1..MaxCalls

\* ------------------------------------------------------ values of the model
\* Messages a client can put in the body of POST /chat.
Messages == {"hello", "open the pod bay doors"}

\* The JSON body of POST /chat: an object that may carry "message".
\* message is "" when the key is absent (hasMessage = FALSE).
ChatBodies ==
    {[hasMessage |-> FALSE, message |-> ""], [hasMessage |-> TRUE, message |-> ""]}
    \cup {[hasMessage |-> TRUE, message |-> m] : m \in Messages}

\* Texts the upstream can put in candidates[0].content.parts[0].text.
ReplyTexts == {"Affirmative, Dave.", ""}

HAL_SYSTEM_INSTRUCTION == "You are HAL 9000, the AI system expert in space technology."

generationConfig == [temperature |-> "0.7", topP |-> "0.9", maxOutputTokens |-> 2048]

\* A turn {"role": r, "parts": [{"text": t}]} of conversation_history.  call
\* is not a field of the program's dict: it records which request appended
\* the turn.
Turn(r, t, c) == [role |-> r, text |-> t, call |-> c]

UserTurn(text, c) == Turn("user", text, c)

ModelTurn(text, c) == Turn("model", text, c)

\* The turn as it is serialized: role and text.
Serialized(turn) == [role |-> turn.role, text |-> turn.text]

Contents(history) == [i \in 1..Len(history) |-> Serialized(history[i])]

\* ---------------------------------------------------- upstream responses
\* One element of candidate["content"]["parts"].
Parts == {[hasText |-> FALSE, text |-> ""]} \cup {[hasText |-> TRUE, text |-> t] : t \in ReplyTexts}

PartLists == {<<>>} \cup {<<p>> : p \in Parts}

\* candidate["content"]: absent, without "parts", or with the list parts.
Candidate(finishReason, hasContent, hasParts, parts) ==
    [finishReason |-> finishReason, hasContent |-> hasContent, hasParts |-> hasParts, parts |-> parts]

\* One element of result["candidates"]: finishReason is "ABSENT" when the key
\* is missing; parts is <<>> when content or content.parts is missing.
Candidates ==
    {Candidate("STOP", FALSE, FALSE, <<>>), Candidate("STOP", TRUE, FALSE, <<>>)}
    \cup {Candidate("STOP", TRUE, TRUE, ps) : ps \in PartLists}
    \cup {Candidate("ABSENT", TRUE, TRUE, <<[hasText |-> TRUE, text |-> t]>>) : t \in ReplyTexts}
    \cup {Candidate("ABSENT", FALSE, FALSE, <<>>), Candidate("SAFETY", FALSE, FALSE, <<>>)}
    \cup {Candidate("SAFETY", TRUE, TRUE, <<[hasText |-> TRUE, text |-> t]>>) : t \in ReplyTexts}

\* The body of a status-200 response: isJson is FALSE when response.json()
\* cannot parse it; candidates is <<>> when the key is missing.
Bodies200 ==
    {[isJson |-> FALSE, hasCandidates |-> FALSE, candidates |-> <<>>],
     [isJson |-> TRUE, hasCandidates |-> FALSE, candidates |-> <<>>],
     [isJson |-> TRUE, hasCandidates |-> TRUE, candidates |-> <<>>]}
    \cup {[isJson |-> TRUE, hasCandidates |-> TRUE, candidates |-> <<c>>] : c \in Candidates}

ErrorStatuses == {429, 500}

UpstreamMessages == {"Resource has been exhausted"}

\* The body of a response whose status is not 200.
ErrorBodies ==
    {[isJson |-> FALSE, isObject |-> FALSE, hasError |-> FALSE, errorIsObject |-> FALSE, hasMessage |-> FALSE, message |-> ""],
     [isJson |-> TRUE, isObject |-> FALSE, hasError |-> FALSE, errorIsObject |-> FALSE, hasMessage |-> FALSE, message |-> ""],
     [isJson |-> TRUE, isObject |-> TRUE, hasError |-> FALSE, errorIsObject |-> FALSE, hasMessage |-> FALSE, message |-> ""],
     [isJson |-> TRUE, isObject |-> TRUE, hasError |-> TRUE, errorIsObject |-> FALSE, hasMessage |-> FALSE, message |-> ""],
     [isJson |-> TRUE, isObject |-> TRUE, hasError |-> TRUE, errorIsObject |-> TRUE, hasMessage |-> FALSE, message |-> ""]}
    \cup {[isJson |-> TRUE, isObject |-> TRUE, hasError |-> TRUE, errorIsObject |-> TRUE, hasMessage |-> TRUE, message |-> m] :
            m \in UpstreamMessages}

\* What requests.post raises when no response arrives.
TransportFailures == {"Read timed out. (read timeout=30)"}

\* --------------------------------------------- call_gemini_api: pure parts
\* What call_gemini_api hands back to chat(): raised tells a raised exception
\* (value is then str(e)) from a returned string; kind names the path taken.
Outcome(kind, raised, value) == [kind |-> kind, raised |-> raised, value |-> value]

NoOutcome == Outcome("none", FALSE, "")

SafetyRefusal == "I'm afraid I cannot respond to that request due to safety protocols."

EmptyFallback == "I'm afraid I couldn't generate a proper response."

\* candidate["content"]["parts"][0]["text"], with the errors Python raises
\* when the list is empty or the part has no "text" key.
bot_text(candidate) ==
    IF candidate.parts = <<>> THEN Outcome("Exception", TRUE, "list index out of range")
    ELSE IF ~candidate.parts[1].hasText THEN Outcome("Exception", TRUE, "'text'")
    ELSE Outcome("Reply", FALSE, candidate.parts[1].text)

\* Variant: the reply is extracted before the safety check is made.
Classify200ContentFirst(result) ==
    IF ~result.isJson
    THEN Outcome("Exception", TRUE, "Expecting value: line 1 column 1 (char 0)")
    ELSE IF result.hasCandidates /\ Len(result.candidates) > 0
    THEN LET candidate == result.candidates[1] IN
         IF candidate.hasContent /\ candidate.hasParts THEN bot_text(candidate)
         ELSE IF candidate.finishReason = "SAFETY" THEN Outcome("Blocked", FALSE, SafetyRefusal)
         ELSE Outcome("Empty", FALSE, EmptyFallback)
    ELSE Outcome("Empty", FALSE, EmptyFallback)

\* The status-200 branch of call_gemini_api.
Classify200(result) ==
    IF ~result.isJson
    THEN Outcome("Exception", TRUE, "Expecting value: line 1 column 1 (char 0)")
    ELSE IF result.hasCandidates /\ Len(result.candidates) > 0
    THEN LET candidate == result.candidates[1] IN
         IF candidate.finishReason = "SAFETY" THEN Outcome("Blocked", FALSE, SafetyRefusal)
         ELSE IF candidate.hasContent /\ candidate.hasParts THEN bot_text(candidate)
         ELSE Outcome("Empty", FALSE, EmptyFallback)
    ELSE Outcome("Empty", FALSE, EmptyFallback)

\* Variant: error_data["error"]["message"] is trusted whenever "error" is there.
error_message_unguarded(status_code, error_data) ==
    IF error_data.isJson /\ error_data.isObject /\ error_data.hasError
    THEN error_data.message
    ELSE "API Error " \o ToString(status_code)

\* The message of the exception raised for a status other than 200.
error_message(status_code, error_data) ==
    LET fallback == "API Error " \o ToString(status_code) IN
    IF ~error_data.isJson THEN fallback
    ELSE IF ~error_data.isObject THEN fallback
    ELSE IF ~error_data.hasError THEN fallback
    ELSE IF ~error_data.errorIsObject THEN fallback
    ELSE IF error_data.hasMessage THEN error_data.message
    ELSE fallback

\* Variant: the reply is put in front of the history.
HistoryReplyFirst(history, out, c) ==
    IF out.kind = "Reply" THEN <<ModelTurn(out.value, c)>> \o history ELSE history

\* Variant: every returned string is recorded as a model turn.
HistoryEveryReturn(history, out, c) ==
    IF ~out.raised THEN Append(history, ModelTurn(out.value, c)) ELSE history

\* Variant: a raised error rolls the user turn back.
HistoryRollback(history, out, c) ==
    IF out.kind = "Reply" THEN Append(history, ModelTurn(out.value, c))
    ELSE IF out.raised /\ history # <<>> THEN SubSeq(history, 1, Len(history) - 1)
    ELSE history

\* conversation_history after call c has handled its response: the model
\* turn is appended on the reply path only.
HistoryAfterOutcome(history, out, c) ==
    IF out.kind = "Reply" THEN Append(history, ModelTurn(out.value, c)) ELSE history

\* ------------------------------------------------------- chat(): pure parts
\* request.json.get('message', '')
user_message(body) == IF body.hasMessage THEN body.message ELSE ""

\* Variant: `user_message is None`, which the default '' never is.
NoMessageIsNone(text) == FALSE

\* `not user_message`
NoMessage(text) == text = ""

HttpResponse(status, key, value) == [status |-> status, key |-> key, value |-> value]

NoHttpResponse == HttpResponse(0, "", "")

\* Variant: the except clause answers without the 500 status.
ChatResponseAlways200(out) ==
    IF out.raised THEN HttpResponse(200, "error", out.value)
    ELSE HttpResponse(200, "response", out.value)

\* The try/except of chat() around call_gemini_api.
ChatResponse(out) ==
    IF out.raised THEN HttpResponse(500, "error", out.value)
    ELSE HttpResponse(200, "response", out.value)

\* ------------------------------------------------------ reset(): pure parts
\* Variant: without `global`, the assignment binds a local name.
reset_history_local(history) == history

\* conversation_history = []
reset_history(history) == <<>>

\* -------------------------------------------------------------- the state
VARIABLES
    conversation_history,  \* the module-level list, a sequence of turns
    pc,                    \* pc[c]: where request c stands in chat()/call_gemini_api()
    message,               \* message[c]: user_message of request c
    payload,               \* payload[c]: the payload dict request c has built
    sent,                  \* sent[c]: the JSON body request c posted upstream
    ended,                 \* ended[c]: how call_gemini_api ended for request c
    before,                \* before[c]: conversation_history when request c entered call_gemini_api
    disturbed,             \* disturbed[c]: another request changed the list during call c
    stale,                 \* stale[c]: /reset was served since call c, still under way, appended its user turn
    sequential,            \* so far no call overlapped another and no /reset was served
    last                   \* the step taken last, with what it received and handed out

vars == <<conversation_history, pc, message, payload, sent, ended, before, disturbed,
          stale, sequential, last>>

\* payload["contents"] is a reference to a list object, not a copy.  "live":
\* it is the object conversation_history names now.  "frozen": reset() has
\* rebound the name since, so the payload holds the only reference to the old
\* object, whose content (list) no longer changes.
NoPayload == [contents |-> "none", list |-> <<>>]

LivePayload == [contents |-> "live", list |-> <<>>]

FrozenPayload(history) == [contents |-> "frozen", list |-> history]

NoRequest == [posted |-> FALSE, contents |-> <<>>, systemInstruction |-> "", generationConfig |-> {}]

\* Variant: contents is the history as it was before the user turn.
RequestBodyBeforeAppend(p, history) ==
    LET list == IF p.contents = "live" THEN history ELSE p.list IN
    [posted |-> TRUE,
     contents |-> Contents(SubSeq(list, 1, Len(list) - 1)),
     systemInstruction |-> HAL_SYSTEM_INSTRUCTION,
     generationConfig |-> {generationConfig}]

\* Variant: the persona is sent as the first turn of contents.
RequestBodyPersonaTurn(p, history) ==
    [posted |-> TRUE,
     contents |-> <<[role |-> "user", text |-> HAL_SYSTEM_INSTRUCTION]>>
                  \o Contents(IF p.contents = "live" THEN history ELSE p.list),
     systemInstruction |-> HAL_SYSTEM_INSTRUCTION,
     generationConfig |-> {generationConfig}]

\* The body requests.post serializes from payload (json=payload).
RequestBody(p, history) ==
    [posted |-> TRUE,
     contents |-> Contents(IF p.contents = "live" THEN history ELSE p.list),
     systemInstruction |-> HAL_SYSTEM_INSTRUCTION,
     generationConfig |-> {generationConfig}]

\* What requests.post returned: the status code and the body.
UpstreamResponse(status_code, body) == [status_code |-> status_code, body |-> body]

NoUpstreamResponse == UpstreamResponse(0, <<>>)

\* A request is inside call_gemini_api, after its first statement.
Active(c) == pc[c] \in {"appended", "built", "inflight"}

\* Requests other than c whose call is under way see the list change.
Disturb(c) == [d \in Calls |-> IF d # c /\ Active(d) THEN TRUE ELSE disturbed[d]]

\* The observation before[d] is kept only while call d is undisturbed.
Observed(obs, dist) == [d \in Calls |-> IF dist[d] THEN <<>> ELSE obs[d]]

\* The step taken last: op is "reject" (chat() answers 400), "raise"
\* (requests.post raised), "respond" (call_gemini_api handled response),
\* "reset", or "other"; out is what call_gemini_api returned or raised and
\* reply the HTTP response handed to the client, if any.
Step(op, c, r, out, reply) == [op |-> op, call |-> c, response |-> r, outcome |-> out, http |-> reply]

OtherStep == Step("other", 0, NoUpstreamResponse, NoOutcome, NoHttpResponse)

Init ==
    /\ conversation_history = <<>>
    /\ pc = [c \in Calls |-> "idle"]
    /\ message = [c \in Calls |-> ""]
    /\ payload = [c \in Calls |-> NoPayload]
    /\ sent = [c \in Calls |-> NoRequest]
    /\ ended = [c \in Calls |-> "none"]
    /\ before = [c \in Calls |-> <<>>]
    /\ disturbed = [c \in Calls |-> FALSE]
    /\ stale = [c \in Calls |-> FALSE]
    /\ sequential = TRUE
    /\ last = OtherStep

\* Variant: a lock lets one call of call_gemini_api run at a time.
ArrivesLocked(c) ==
    /\ pc[c] = "idle" /\ (IF c = 1 THEN TRUE ELSE pc[c - 1] # "idle")
    /\ \A d \in Calls : ~Active(d)

\* Requests are numbered in the order they arrive.
Arrives(c) == pc[c] = "idle" /\ (IF c = 1 THEN TRUE ELSE pc[c - 1] # "idle")

\* chat(): the message is missing or empty, 400 without calling call_gemini_api.
ChatRejects(c) ==
    /\ Arrives(c)
    /\ \E body \in ChatBodies :
        /\ NoMessage(user_message(body))
        /\ message' = [message EXCEPT ![c] = user_message(body)]
    /\ pc' = [pc EXCEPT ![c] = "done"]
    /\ last' = Step("reject", c, NoUpstreamResponse, NoOutcome,
                    HttpResponse(400, "error", "No message provided"))
    /\ UNCHANGED <<conversation_history, payload, sent, ended, before, disturbed, stale,
                   sequential>>

\* chat() calls call_gemini_api, whose first statement appends the user turn.
AppendUser(c) ==
    /\ Arrives(c)
    /\ \E body \in ChatBodies :
        /\ ~NoMessage(user_message(body))
        /\ message' = [message EXCEPT ![c] = user_message(body)]
        /\ conversation_history' = Append(conversation_history, UserTurn(user_message(body), c))
    /\ disturbed' = Disturb(c)
    /\ before' = Observed([before EXCEPT ![c] = conversation_history], disturbed')
    /\ sequential' = (sequential /\ \A d \in Calls : ~Active(d))
    /\ pc' = [pc EXCEPT ![c] = "appended"]
    /\ last' = OtherStep
    /\ UNCHANGED <<payload, sent, ended, stale>>

\* payload = {"contents": conversation_history, ...}: binds the current list object.
BuildPayload(c) ==
    /\ pc[c] = "appended"
    /\ payload' = [payload EXCEPT ![c] = LivePayload]
    /\ pc' = [pc EXCEPT ![c] = "built"]
    /\ last' = OtherStep
    /\ UNCHANGED <<conversation_history, message, sent, ended, before, disturbed, stale,
                   sequential>>

\* requests.post(url, json=payload, ...): the payload is serialized and sent.
Post(c) ==
    /\ pc[c] = "built"
    /\ sent' = [sent EXCEPT ![c] = RequestBody(payload[c], conversation_history)]
    /\ payload' = [payload EXCEPT ![c] = NoPayload]
    /\ pc' = [pc EXCEPT ![c] = "inflight"]
    /\ last' = OtherStep
    /\ UNCHANGED <<conversation_history, message, ended, before, disturbed, stale,
                   sequential>>

\* The rest of call_gemini_api, from `if response.status_code == 200`.
HandleResponse(r) ==
    IF r.status_code = 200 THEN Classify200(r.body)
    ELSE Outcome("UpstreamError", TRUE, error_message(r.status_code, r.body))

\* Variant: a call that raised is made again.
RetryAfterError(out) == IF out.raised THEN "built" ELSE "done"

\* Where the request stands once call_gemini_api has returned or raised:
\* chat() answers the client; neither function loops.
AfterOutcome(out) == "done"

\* call_gemini_api ends with `out`, and chat() answers the client.  The
\* request body and the observations of the call are dropped.
Finish(c, op, r, out) ==
    /\ conversation_history' = HistoryAfterOutcome(conversation_history, out, c)
    /\ ended' = [ended EXCEPT ![c] = out.kind]
    /\ disturbed' = [(IF conversation_history' # conversation_history
                      THEN Disturb(c) ELSE disturbed) EXCEPT ![c] = FALSE]
    /\ before' = Observed([before EXCEPT ![c] = <<>>], disturbed')
    /\ stale' = [stale EXCEPT ![c] = FALSE]
    /\ sent' = [sent EXCEPT ![c] = NoRequest]
    /\ pc' = [pc EXCEPT ![c] = AfterOutcome(out)]
    /\ last' = Step(op, c, r, out, ChatResponse(out))
    /\ UNCHANGED <<message, payload, sequential>>

\* requests.post raises (connection failure, timeout); the except clause re-raises.
TransportFails(c) ==
    /\ pc[c] = "inflight"
    /\ \E e \in TransportFailures :
        Finish(c, "raise", NoUpstreamResponse, Outcome("TransportError", TRUE, e))

\* requests.post returns r, and the rest of call_gemini_api handles it.
Respond(c, r) == Finish(c, "respond", r, HandleResponse(r))

\* The upstream answers with status 200.
Respond200(c) ==
    /\ pc[c] = "inflight"
    /\ \E result \in Bodies200 : Respond(c, UpstreamResponse(200, result))

\* The upstream answers with another status.
RespondError(c) ==
    /\ pc[c] = "inflight"
    /\ \E status_code \in ErrorStatuses, error_data \in ErrorBodies :
        Respond(c, UpstreamResponse(status_code, error_data))

\* Payloads built on the list object that reset() unbinds keep that object.
ResetPayloads(payloads, history) ==
    [c \in Calls |-> IF payloads[c].contents = "live" THEN FrozenPayload(history) ELSE payloads[c]]

\* POST /reset.
Reset ==
    /\ conversation_history' = reset_history(conversation_history)
    /\ payload' = ResetPayloads(payload, conversation_history)
    /\ disturbed' = [c \in Calls |-> IF Active(c) THEN TRUE ELSE disturbed[c]]
    /\ before' = Observed(before, disturbed')
    /\ stale' = [c \in Calls |-> Active(c)]
    /\ sequential' = FALSE
    /\ last' = Step("reset", 0, NoUpstreamResponse, NoOutcome, HttpResponse(200, "status", "reset"))
    /\ UNCHANGED <<pc, message, sent, ended>>

Next ==
    \/ \E c \in Calls : ChatRejects(c)
    \/ \E c \in Calls : AppendUser(c)
    \/ \E c \in Calls : BuildPayload(c)
    \/ \E c \in Calls : Post(c)
    \/ \E c \in Calls : TransportFails(c)
    \/ \E c \in Calls : Respond200(c)
    \/ \E c \in Calls : RespondError(c)
    \/ Reset

Spec == Init /\ [][Next]_vars

\* Each request runs on its own thread, which keeps being scheduled, and
\* requests.post ends: the upstream answers or the 30 s timeout fires.
Fairness ==
    \A c \in Calls :
        /\ WF_vars(BuildPayload(c))
        /\ WF_vars(Post(c))
        /\ WF_vars(TransportFails(c) \/ Respond200(c) \/ RespondError(c))

FairSpec == Spec /\ Fairness

\* ================================================================ claims
\* The call whose step was taken last, and helpers of the claims.
Completed == {c \in Calls : ended[c] # "none"}

\* The rank of call c among the calls of call_gemini_api, in call order.
Rank(c) == Cardinality({d \in Completed : d <= c})

IsPrefix(s, t) == Len(s) <= Len(t) /\ SubSeq(t, 1, Len(s)) = s

Responded(kinds) == last.op = "respond" /\ last.outcome.kind \in kinds

\* ---- C1
\* The run so far is a sequence of calls of call_gemini_api made one after
\* another, none under way, each ended in a reply, and no /reset.
OnlyReplies ==
    /\ sequential
    /\ \A c \in Calls : pc[c] \in {"idle", "done"} /\ ended[c] \in {"none", "Reply"}

C1_Transcript ==
    OnlyReplies =>
      /\ Len(conversation_history) = 2 * Cardinality(Completed)
      /\ \A c \in Completed :
            /\ conversation_history[2 * Rank(c) - 1] = UserTurn(message[c], c)
            /\ conversation_history[2 * Rank(c)].role = "model"
            /\ conversation_history[2 * Rank(c)].call = c
      /\ (Responded({"Reply"}) =>
            conversation_history[2 * Rank(last.call)] = ModelTurn(last.outcome.value, last.call))

C1_Step == sequential' => IsPrefix(conversation_history, conversation_history')

\* C1: starting from the empty history, after N calls of call_gemini_api made
\* one after another that each end in a reply, with no reset in between, the
\* history has exactly 2N turns; turn 2k-1 is the user turn of call k and
\* turn 2k the model turn with the text call k returned (it has that text
\* when call k returns, and no later step of such a run changes a turn).
C1_TranscriptGrowth == []C1_Transcript /\ [][C1_Step]_vars

C1_Witness ==
    /\ OnlyReplies
    /\ \A c \in Calls : ended[c] = "Reply"
    /\ message[1] # message[2]
    /\ Len(conversation_history) = 2 * MaxCalls

\* ---- C2
FirstCandidateSafety(r) ==
    /\ r.status_code = 200
    /\ r.body.isJson /\ r.body.hasCandidates /\ Len(r.body.candidates) > 0
    /\ r.body.candidates[1].finishReason = "SAFETY"

\* C2 as stated: a reply gives 200 {response: text}; every other outcome and
\* every raised error gives 500 {error: message}.
C2_AsStated ==
    last.op \in {"respond", "raise"} =>
        IF last.outcome.kind = "Reply"
        THEN last.http = HttpResponse(200, "response", last.outcome.value)
        ELSE last.http = HttpResponse(500, "error", last.outcome.value)

\* C2, amended: whenever call_gemini_api returns a string (a reply, the
\* safety refusal or the fallback for an empty response) chat() answers 200
\* with {response: that string}; whenever it raises, chat() answers 500 with
\* {error: message}.  A status-200 upstream response whose first candidate
\* has finishReason SAFETY yields 200 with the fixed refusal as response.
C2_ChatStatus ==
    last.op \in {"respond", "raise"} =>
        /\ last.outcome.kind \in {"Reply", "Blocked", "Empty"} =>
                last.http = HttpResponse(200, "response", last.outcome.value)
        /\ last.outcome.kind \in {"UpstreamError", "TransportError", "Exception"} =>
                last.http = HttpResponse(500, "error", last.outcome.value)
        /\ (last.op = "respond" /\ FirstCandidateSafety(last.response)) =>
                last.http = HttpResponse(200, "response", SafetyRefusal)

C2_Witness ==
    /\ last.op = "respond"
    /\ FirstCandidateSafety(last.response)
    /\ last.http.status = 200

\* ---- C3
\* C3: the contents of the request a call posts is the history as it stood
\* right after the call appended its user turn: the turns recorded before
\* the call, in order, then the user turn of the call, and nothing else.
\* Stated for a call during which no other request changed the history.
C3_Contents ==
    \A c \in Calls :
        (pc[c] = "inflight" /\ ~disturbed[c]) =>
            /\ sent[c].posted
            /\ sent[c].contents = Contents(Append(before[c], UserTurn(message[c], c)))

C3_Witness ==
    \E c \in Calls :
        /\ pc[c] = "inflight" /\ ~disturbed[c]
        /\ Len(before[c]) = 2
        /\ Len(sent[c].contents) = 3

\* ---- C4
C4_Step ==
    (last'.op = "respond" /\ last'.outcome.kind \in {"Blocked", "Empty"}) =>
        LET c == last'.call IN
        /\ pc[c] = "inflight" /\ pc'[c] = "done"
        /\ conversation_history' = conversation_history
        /\ ~disturbed[c] =>
                conversation_history' = Append(before[c], UserTurn(message[c], c))

\* C4: a call that ends with the safety refusal or with the fallback for an
\* empty response appends no model turn: the step that handles the response
\* leaves the history as it is, and when no other request changed the
\* history during the call, the history after the call is the history before
\* it with the user turn of the call added at the end.
C4_BlockedEmptyFrame == [][C4_Step]_vars

C4_Witness ==
    /\ Responded({"Blocked", "Empty"})
    /\ sequential
    /\ Len(conversation_history) = 3
    /\ conversation_history[3] = UserTurn(message[last.call], last.call)

\* ---- C5
C5_Step ==
    (last'.op \in {"respond", "raise"} /\ last'.outcome.kind \in {"TransportError", "UpstreamError"}) =>
        LET c == last'.call IN
        /\ pc[c] = "inflight" /\ pc'[c] = "done"
        /\ last'.outcome.raised
        /\ conversation_history' = conversation_history
        /\ ~disturbed[c] =>
                conversation_history' = Append(before[c], UserTurn(message[c], c))

\* C5: a call that ends because requests.post raised, or because the status
\* was not 200, raises to chat(); the step removes nothing from the history
\* and appends no model turn, and when no other request changed the history
\* during the call, the history after the call is the history before it
\* with the user turn of the call added at the end.
C5_ErrorKeepsUserTurn == [][C5_Step]_vars

C5_Witness ==
    /\ last.op \in {"respond", "raise"}
    /\ last.outcome.kind \in {"TransportError", "UpstreamError"}
    /\ last.outcome.raised
    /\ sequential
    /\ conversation_history = <<UserTurn(message[last.call], last.call)>>

\* ---- C6
\* C6: whatever the history held, right after POST /reset the history is the
\* empty sequence and the response is 200 {status: reset}; a second reset
\* applied to the state a reset leaves would change nothing.
C6_Reset ==
    last.op = "reset" =>
        /\ conversation_history = <<>>
        /\ last.http = HttpResponse(200, "status", "reset")
        /\ reset_history(conversation_history) = conversation_history
        /\ ResetPayloads(payload, conversation_history) = payload
        /\ \A c \in Calls : Active(c) => disturbed[c]
        /\ Observed(before, disturbed) = before
        /\ ~sequential

C6_Witness ==
    /\ last.op = "reset"
    /\ \E c \in Calls : payload[c].contents = "frozen" /\ Len(payload[c].list) >= 2

\* ---- C7
C7_Step ==
    \A c \in Calls :
        (pc[c] = "idle" /\ pc'[c] # "idle" /\ message'[c] = "") =>
            /\ last'.op = "reject" /\ last'.call = c
            /\ last'.http = HttpResponse(400, "error", "No message provided")
            /\ conversation_history' = conversation_history
            /\ pc'[c] = "done" /\ ended'[c] = "none"
            /\ sent' = sent /\ payload' = payload

LacksContentPath(candidate) ==
    \/ ~candidate.hasContent
    \/ ~candidate.hasParts
    \/ candidate.parts = <<>>
    \/ ~candidate.parts[1].hasText

NoUsableContent(r) ==
    /\ r.status_code = 200
    /\ r.body.isJson
    /\ \/ ~r.body.hasCandidates
       \/ r.body.candidates = <<>>
       \/ /\ r.body.candidates[1].finishReason # "SAFETY"
          /\ LacksContentPath(r.body.candidates[1])

\* C8: for every status-200 response that has no candidates, or whose first
\* candidate lacks the content path (content missing, parts missing, parts
\* empty, first part without text), call_gemini_api returns the fallback for
\* an empty response and raises nothing.
C8_EmptyOutcome ==
    (last.op = "respond" /\ NoUsableContent(last.response)) =>
        last.outcome = Outcome("Empty", FALSE, EmptyFallback)

\* ---- C9
C9_Step ==
    (last'.op = "respond" /\ FirstCandidateSafety(last'.response)) =>
        /\ last'.outcome = Outcome("Blocked", FALSE, SafetyRefusal)
        /\ conversation_history' = conversation_history

\* C9: for every status-200 response whose first candidate has finishReason
\* SAFETY, call_gemini_api returns the fixed refusal and appends no model
\* turn, also when the candidate carries content text.
C9_SafetyFirst == [][C9_Step]_vars

C9_Witness ==
    /\ last.op = "respond"
    /\ FirstCandidateSafety(last.response)
    /\ LET candidate == last.response.body.candidates[1] IN
        /\ candidate.hasContent /\ candidate.hasParts
        /\ candidate.parts # <<>> /\ candidate.parts[1].hasText /\ candidate.parts[1].text # ""
    /\ last.outcome.kind = "Blocked"
    /\ \A i \in 1..Len(conversation_history) : conversation_history[i].role = "user"

\* ---- C10
\* The body parses as JSON and carries error.message.
CarriesErrorMessage(body) ==
    body.isJson /\ body.isObject /\ body.hasError /\ body.errorIsObject /\ body.hasMessage

C10_Step ==
    (last'.op = "respond" /\ last'.response.status_code # 200) =>
        LET r == last'.response IN
        /\ last'.outcome.kind = "UpstreamError" /\ last'.outcome.raised
        /\ last'.outcome.value =
              IF CarriesErrorMessage(r.body) THEN r.body.message
              ELSE "API Error " \o ToString(r.status_code)
        /\ conversation_history' = conversation_history

\* C10: for every response whose status is not 200, call_gemini_api raises
\* an error whose message is error.message of the body when the body parses
\* as JSON and carries that field, and "API Error <status>" otherwise; the
\* message is not appended to the history.
C10_UpstreamError == [][C10_Step]_vars

C10_Witness ==
    /\ last.op = "respond"
    /\ last.response.status_code = 429
    /\ last.response.body.hasError /\ ~last.response.body.errorIsObject
    /\ last.outcome.value = "API Error 429"

\* ---- C11
Positions == 1..Len(conversation_history)

\* The model turn at position i answers the user turn of the same call.
AnsweredEarlier(i) ==
    \E j \in 1..(i - 1) :
        /\ conversation_history[j].role = "user"
        /\ conversation_history[j].call = conversation_history[i].call

CountRole(role) == Cardinality({i \in Positions : conversation_history[i].role = role})

\* C11: in every reachable state, resets and overlapping calls included,
\* every model turn of the history is preceded, at an earlier position of
\* the same history, by the user turn of the call it answers; hence there
\* are never more model turns than user turns.
C11_ModelAfterUser ==
    /\ \A i \in Positions : conversation_history[i].role = "model" => AnsweredEarlier(i)
    /\ CountRole("model") <= CountRole("user")

\* ---- C12
\* Call d may enter call_gemini_api: it is the next request to arrive.
NextToArrive(d) == pc[d] = "idle" /\ \A c \in Calls : c < d => pc[c] # "idle"

\* C12: the shared history is unprotected when calls overlap.  No call is
\* ever kept waiting by another: whatever the other requests are doing, the
\* next request can append its user turn, an appended call can build and
\* post, and a posted call can receive its reply.  So the state is reached
\* (C12_Witness) in which the user turns of two calls both precede the model
\* turn of the earlier one while the later one, in flight, has posted
\* contents holding the earlier user turn without the reply to it.
C12_Unprotected ==
    \A d \in Calls :
        /\ NextToArrive(d) => ENABLED AppendUser(d)
        /\ pc[d] = "appended" => ENABLED BuildPayload(d)
        /\ pc[d] = "built" => ENABLED Post(d)
        /\ pc[d] = "inflight" => ENABLED Respond200(d)

C12_Witness ==
    \E c, d \in Calls :
        /\ c < d
        /\ pc[d] = "inflight"
        /\ sent[d].contents = Contents(<<UserTurn(message[c], c), UserTurn(message[d], d)>>)
        /\ Len(conversation_history) = 3
        /\ SubSeq(conversation_history, 1, 2) = <<UserTurn(message[c], c), UserTurn(message[d], d)>>
        /\ conversation_history[3].role = "model" /\ conversation_history[3].call = c

\* ---- C13
C13_Step ==
    \/ conversation_history' = conversation_history
    \/ /\ Len(conversation_history') = Len(conversation_history) + 1
       /\ SubSeq(conversation_history', 1, Len(conversation_history)) = conversation_history
    \/ conversation_history' = <<>>

\* C13: every change of the history either adds one turn at the end, all
\* turns already there unchanged in content and position, or empties the
\* history (reset); no step removes part of the turns, reorders them or
\* alters a recorded turn.
C13_AppendOrClear == [][C13_Step]_vars

\* Both kinds of change have happened: the turns of a call that got its reply
\* were cleared, and a later call has appended.
C13_Witness ==
    \E c, d \in Calls :
        /\ c < d
        /\ ended[c] = "Reply"
        /\ conversation_history = <<UserTurn(message[d], d)>>

\* ---- C14
\* C14: in every reachable state every turn of the history has a role in
\* {user, model} and a non-empty text, whatever reply text the upstream
\* returns in a status-200 response.
C14_TurnsWellFormed ==
    \A i \in Positions :
        /\ conversation_history[i].role \in {"user", "model"}
        /\ conversation_history[i].text # ""

\* ---- C15
TurnsOf(contents) == {contents[i] : i \in 1..Len(contents)}

\* C15: every request posted upstream carries the persona instruction in
\* systemInstruction and the generation configuration {temperature 0.7,
\* topP 0.9, maxOutputTokens 2048}, whatever the history holds and whether or
\* not a reset happened; the persona is no turn of the history or of the
\* posted contents, whose turns have the roles user and model only.
C15_Persona ==
    /\ \A c \in Calls :
        sent[c].posted =>
            /\ sent[c].systemInstruction = HAL_SYSTEM_INSTRUCTION
            /\ sent[c].generationConfig =
                  {[temperature |-> "0.7", topP |-> "0.9", maxOutputTokens |-> 2048]}
            /\ \A turn \in TurnsOf(sent[c].contents) :
                  turn.role \in {"user", "model"} /\ turn.text # HAL_SYSTEM_INSTRUCTION
    /\ \A turn \in TurnsOf(conversation_history) :
          turn.role \in {"user", "model"} /\ turn.text # HAL_SYSTEM_INSTRUCTION

\* A request posted after a reset: the first call has its reply, and the
\* second posted a single turn.
C15_Witness ==
    /\ MaxCalls >= 2
    /\ ended[1] = "Reply"
    /\ pc[2] = "inflight" /\ sent[2].posted
    /\ Len(sent[2].contents) = 1

\* ---- C16
\* Request c posts in this step.
Posts(c) == sent'[c].posted /\ sent'[c] # sent[c]

C16_Step ==
    \A c \in Calls :
        /\ Posts(c) => (pc[c] = "built" /\ pc'[c] = "inflight" /\ ended[c] = "none")
        /\ pc[c] = "inflight" => pc'[c] \in {"inflight", "done"}
        /\ pc[c] = "done" => (pc'[c] = "done" /\ ~Posts(c))
        /\ (pc[c] = "inflight" /\ pc'[c] = "done") =>
                /\ last'.op \in {"respond", "raise"} /\ last'.call = c
                /\ ended'[c] = last'.outcome.kind /\ ended'[c] # "none"
                /\ last'.http.status \in {200, 500}
                /\ last'.http.value = last'.outcome.value

\* C16: each call of call_gemini_api posts upstream exactly once: a request
\* posts only on its way from the built payload to the wait for the
\* response, the first step it takes after that ends the call and hands the
\* outcome (returned or raised) to the client in chat()'s response, and a
\* request that has ended takes no further step, so nothing is posted again
\* after a transport failure, an upstream error, a refusal or an empty
\* response.
C16_SinglePost == [][C16_Step]_vars

\* Both calls failed, each of them after its one post.
C16_Witness ==
    /\ \A c \in Calls : pc[c] = "done" /\ ended[c] \in {"TransportError", "UpstreamError", "Blocked", "Empty"}
    /\ \E c, d \in Calls : ended[c] = "TransportError" /\ ended[d] = "UpstreamError"
    /\ last.op \in {"respond", "raise"}
    /\ last.outcome.raised /\ last.http.status = 500

\* ---- C17
\* The outcomes the taxonomy of call_gemini_api names.
NamedOutcomes == {"Reply", "Blocked", "Empty", "UpstreamError", "TransportError"}

\* C17: every call of call_gemini_api that has left the in-flight state has
\* ended in exactly one of Reply, Blocked, Empty, UpstreamError and
\* TransportError.
C17_NamedOutcome ==
    \A c \in Calls : (pc[c] = "done" /\ ended[c] # "none") => ended[c] \in NamedOutcomes

\* The lifecycle part of C17, which holds under FairSpec: every call under
\* way ends, whatever the other calls and resets do.
C17_Terminates == \A c \in Calls : Active(c) ~> (pc[c] = "done" /\ ended[c] # "none")

\* ---- C18
\* Turns of call c in a transcript.
TurnsOfCall(history, c) == {i \in 1..Len(history) : history[i].call = c}

\* C18: once reset() has run, no step puts into the transcript a turn of a
\* call whose user turn was appended before that reset, the calls in flight
\* at the reset included.
C18_Step == \A c \in Calls : stale[c] => TurnsOfCall(conversation_history', c) = {}

C18_ResetClearsEveryTrace == [][C18_Step]_vars

====
